---- MODULE Spec2Model ----
(***************************************************************************)
(* ANS-104 bundle indexer: the tag codec (transaction/tags.rs), the bundle *)
(* item decoder and the lazy BundleStream (transaction/bundle.rs), the     *)
(* legacy batch decoder (indexer.rs), the file-system storage session      *)
(* (storage/fs.rs) and the orchestrator Indexer::index                     *)
(* (indexer/indexer_default.rs).                                           *)
(*                                                                         *)
(* Bytes are integers 0..255, byte buffers are sequences of bytes.  A Rust *)
(* String holding base64 text is a sequence of one-character strings; a    *)
(* Rust String decoded from a tag is the sequence of its UTF-8 bytes.      *)
(* Positions (pos, current_entry) are 0-based as in the source.            *)
(***************************************************************************)
EXTENDS Integers, Sequences, FiniteSets, TLC

VARIABLES
    \* ---- TagsReader (transaction/tags.rs) ----
    buffer,     \* TagsReader.buffer
    reader,     \* TagsReader.pos, the tags vector, the loop position of read_tags
    tagsEv,     \* what the last step of read_tags did
    \* ---- BundleStream / parse_bundle ----
    input,      \* the raw bundle handed to the decoders
    bstream,    \* BundleStream {bytes, entries, current_entry}
    polls,      \* what each poll_next call so far returned
    batch,      \* what parse_bundle returned
    \* ---- the file system and the runs of Indexer::index ----
    staging,    \* temp_dir()/<transaction_id>: the inode linked there, 0 when none
    dest,       \* <storage_folder>/<transaction_id>: the inode linked there, 0 when none
    files,      \* the content of every inode: the sequence of chunks written to it
    runs,       \* per call of Indexer::index: its locals and what it has done so far
    ev,         \* the last step of a run
    \* ---- one call of BundleItem::parse_item ----
    item_src,   \* how the slice was made up (what its fields are meant to hold)
    item_data,  \* data: the item slice
    item_res,   \* what parse_item returned
    \* ---- read_long and skip_long called on one reader position ----
    long_buf,   \* buffer: the bytes the reader holds
    long_pos,   \* pos before the call
    long_read,  \* what read_long returned and the pos it left
    long_skip   \* the pos skip_long left

vars == <<buffer, reader, tagsEv, input, bstream, polls, batch,
          staging, dest, files, runs, ev, item_src, item_data, item_res,
          long_buf, long_pos, long_read, long_skip>>

tagsVars == <<buffer, reader, tagsEv>>
streamVars == <<input, bstream, polls, batch>>
indexVars == <<staging, dest, files, runs, ev>>
itemVars == <<item_src, item_data, item_res>>
longVars == <<long_buf, long_pos, long_read, long_skip>>

\* BytesMut::split_to(n) gives the first n bytes and leaves the rest
Take(n, s) == SubSeq(s, 1, n)
Drop(n, s) == SubSeq(s, n + 1, Len(s))

----------------------------------------------------------------------------
(* Bounds of the checked instances.                                        *)

\* longest tag buffer handed to TagsReader::deserialize in TagsSpec
MaxTagLen == 6

\* the byte values tag buffers are drawn from: 0x00 (long 0), 0x02 (long 1),
\* 0x03 (long -2), 0x41 ('A'; as a long -33), 0x80 (continuation bit, payload 0;
\* inside a string an invalid UTF-8 byte)
TagBytes == {0, 2, 3, 65, 128}

RECURSIVE SeqsUpTo(_, _)
SeqsUpTo(S, n) ==
    IF n = 0 THEN {<<>>}
    ELSE LET shorter == SeqsUpTo(S, n - 1)
         IN shorter \cup {Append(s, x) : s \in {t \in shorter : Len(t) = n - 1}, x \in S}

TagBuffers == SeqsUpTo(TagBytes, MaxTagLen)

\* most entries a bundle of StreamInputs declares
MaxEntries == 2

\* how often a drained stream is polled again
MaxEndPolls == 2

Fill(n, seed) == [i \in 1..n |-> (seed + 7 * i) % 256]
RECURSIVE LittleEndian(_, _)
LittleEndian(v, n) ==
    IF n = 0 THEN <<>> ELSE <<v % 256>> \o LittleEndian(v \div 256, n - 1)
Zeros(n) == [i \in 1..n |-> 0]

\* the item slices bundles are built from
\*   plain        ED25519, no target, no anchor, no tags, 3 payload bytes
\*   linked       TypedEthereum, target and anchor present, one tag ("A", "A"), no payload
\*   badsig       signature-type discriminant 9
\*   badpresence  target presence byte 2, followed by a byte 7
\*   tagcount     3 tags declared, a tag block holding 2 records
\*   tagerror     a tag block whose first string is longer than the block
\*   short        ED25519 with 10 bytes where 64 + 32 are due
ItemVariants ==
    {"plain", "linked", "badsig", "badpresence", "tagcount", "tagerror", "short"}

ItemBytes(variant, seed) ==
    LET ed == LittleEndian(2, 2) \o Fill(64, seed) \o Fill(32, seed + 1)
        TagBlock(count, block) ==
            LittleEndian(count, 8) \o LittleEndian(Len(block), 8) \o block
    IN CASE variant = "plain" ->
                ed \o <<0, 0>> \o TagBlock(0, <<>>) \o <<seed, 255, 254>>
         [] variant = "linked" ->
                LittleEndian(7, 2) \o Fill(65, seed) \o Fill(42, seed + 1)
                    \o <<1>> \o Fill(32, seed + 2) \o <<1>> \o Fill(32, seed + 3)
                    \o TagBlock(1, <<2, 2, 65, 2, 65, 0>>)
         [] variant = "badsig" -> LittleEndian(9, 2) \o <<1, 2, 3>>
         [] variant = "badpresence" -> ed \o <<2, 7>> \o TagBlock(0, <<>>)
         [] variant = "tagcount" ->
                ed \o <<0, 0>> \o TagBlock(3, <<4, 0, 0, 0, 0, 0>>) \o <<seed>>
         [] variant = "tagerror" -> ed \o <<0, 0>> \o TagBlock(1, <<2, 2>>)
         [] variant = "short" -> LittleEndian(2, 2) \o Fill(10, seed)

RECURSIVE Concat(_)
Concat(ss) == IF ss = <<>> THEN <<>> ELSE ss[1] \o Concat(Tail(ss))

\* the bundle of the given items: header count, entry table, item slices
Bundle(variants) ==
    LET items == [k \in 1..Len(variants) |-> ItemBytes(variants[k], 10 * k)]
        entry(k) == LittleEndian(Len(items[k]), 4) \o Zeros(28) \o Fill(32, 100 + k)
    IN LittleEndian(Len(variants), 4) \o Zeros(28)
           \o Concat([k \in 1..Len(variants) |-> entry(k)])
           \o Concat(items)

WholeBundles == {Bundle(vs) : vs \in SeqsUpTo(ItemVariants, MaxEntries)}

\* whole bundles, bundles that lost their last byte, and a bundle cut inside its header
StreamInputs ==
    WholeBundles
        \cup {Take(Len(b) - 1, b) : b \in WholeBundles}
        \cup {Take(k, Bundle(<<"plain">>)) : k \in {0, 20, 60}}

\* most tags an item slice of ItemSpec declares, and most records its tag block holds
MaxTagCount == 3

\* signature-type discriminants: 1..=8 and values around and far from that range
SigValues == 0..10 \cup {255, 256, 65535}

\* presence bytes of target and anchor
PresenceBytes == {0, 1, 2, 3, 255}

\* how the records of a tag block are laid out
\*   none        no block (byte length 0)
\*   one         one block: count d, d records
\*   terminated  the same and a closing 0
\*   negative    one block: count -d, its byte size, d records
\*   split       d blocks of one record each
TagShapes == {"none", "one", "terminated", "negative", "split"}

TagRecord(k) == <<2, 65, 4, 66, 65 + k>>

RECURSIVE TagRecords(_, _)
TagRecords(d, split) ==
    IF d = 0 THEN <<>>
    ELSE TagRecords(d - 1, split) \o (IF split THEN <<2>> ELSE <<>>) \o TagRecord(d)

\* the tag block of shape `shape` holding d records
TagBlockBytes(shape, d) ==
    CASE shape = "none" -> <<>>
      [] shape = "one" -> <<2 * d>> \o TagRecords(d, FALSE)
      [] shape = "terminated" -> <<2 * d>> \o TagRecords(d, FALSE) \o <<0>>
      [] shape = "negative" ->
            IF d = 0 THEN <<0>> ELSE <<2 * d - 1, 10 * d>> \o TagRecords(d, FALSE)
      [] shape = "split" -> TagRecords(d, TRUE) \o <<0>>

\* an item slice is made up of: the discriminant sig, the presence bytes target
\* and anchor, the declared tag count, a tag block of `shape` holding `recs`
\* records, and `cut`, the number of bytes its end lost
ItemParams ==
    {[sig |-> v, target |-> 0, anchor |-> 0, count |-> 0, shape |-> "none",
      recs |-> 0, cut |-> 0] : v \in SigValues}
    \cup {[sig |-> 2, target |-> t, anchor |-> a, count |-> 0, shape |-> "none",
           recs |-> 0, cut |-> 0] : t \in PresenceBytes, a \in PresenceBytes}
    \cup {[sig |-> 2, target |-> 0, anchor |-> 0, count |-> c, shape |-> sh,
           recs |-> d, cut |-> 0] :
              c \in 0..MaxTagCount, sh \in TagShapes \ {"none"}, d \in 0..MaxTagCount}
    \cup {[sig |-> 2, target |-> 0, anchor |-> 0, count |-> c, shape |-> "none",
           recs |-> 0, cut |-> 0] : c \in 1..MaxTagCount}
    \cup {[sig |-> 7, target |-> 1, anchor |-> 1, count |-> 1, shape |-> "one",
           recs |-> 1, cut |-> k] : k \in {0, 1, 3, 10, 30, 60, 120, 185}}

NoItemParams ==
    [sig |-> 0, target |-> 0, anchor |-> 0, count |-> 0, shape |-> "none",
     recs |-> 0, cut |-> -1]

ItemPayload == <<9, 8, 7>>

PresenceField(b, seed) == IF b = 1 THEN <<1>> \o Fill(32, seed) ELSE <<b>>

ItemWhole(p, sizes, block) ==
    LittleEndian(p.sig, 2) \o Fill(sizes[1], 1) \o Fill(sizes[2], 2)
        \o PresenceField(p.target, 3) \o PresenceField(p.anchor, 4)
        \o LittleEndian(p.count, 8) \o LittleEndian(Len(block), 8) \o block
        \o ItemPayload

ItemCut(whole, cut) == Take(Len(whole) - cut, whole)

\* longest buffer read_long and skip_long are called on in LongSpec
MaxLongLen == 5

\* the byte values of those buffers: 0x00 and 0x01 end a long (payloads 0 and 1),
\* 0x81 and 0xff carry the continuation bit (payloads 1 and 127)
LongBytes == {0, 1, 129, 255}

LongBuffers == SeqsUpTo(LongBytes, MaxLongLen)

\* how many calls of Indexer::index are made, in any interleaving
MaxRuns == 2

Runs == 1..MaxRuns

TxIds == {"tx1", "tx2"}

\* the runs are alike and so are the transaction ids: run r is the r-th to begin,
\* and the first run is given the first id
TxChoices(r) == IF r = 1 THEN {"tx1"} ELSE TxIds

\* what the gateway serves: the items of the bundle, and how many bytes its end lost
IndexSources ==
    {[variants |-> vs, cut |-> 0] :
        vs \in {<<>>, <<"plain">>, <<"plain", "linked">>, <<"badsig", "plain">>,
                <<"plain", "tagcount">>}}
        \cup {[variants |-> <<"plain">>, cut |-> c] : c \in {1, 140}}
        \cup {[variants |-> <<"plain", "plain">>, cut |-> 1]}

NoSource == [variants |-> <<>>, cut |-> -1]

SourceBytes(src) == Take(Len(Bundle(src.variants)) - src.cut, Bundle(src.variants))

----------------------------------------------------------------------------
(* Results.  Every Result<T, ParseError> is a record of one shape.         *)

NoErr == [name |-> "none", a |-> 0, b |-> 0]
ParseError(name, a, b) == [name |-> name, a |-> a, b |-> b]

----------------------------------------------------------------------------
(* TagsReader, transaction/tags.rs                                         *)

\* the value halved, the sign bit dropped
ZigZagUnsigned(number) == number \div 2

\* (number >> 1) ^ -(number & 1) on a non-negative i64 below 2^28:
\* even n gives n/2, odd n gives the bitwise complement of n/2
ZigZag(number) ==
    IF number % 2 = 0 THEN number \div 2 ELSE -(number \div 2) - 1

RECURSIVE read_long_loop(_, _, _, _)
read_long_loop(buf, pos, number, shift) ==
    IF pos >= Len(buf)
    THEN [some |-> FALSE, val |-> 0, pos |-> pos]
    ELSE LET byte == buf[pos + 1]
             number2 == number + (byte % 128) * (2 ^ shift)
             shift2 == shift + 7
         IN IF byte < 128 \/ shift2 >= 28
            THEN [some |-> TRUE, val |-> ZigZag(number2), pos |-> pos + 1]
            ELSE read_long_loop(buf, pos + 1, number2, shift2)

\* Option<i64> and the position the reader is left at
read_long(buf, pos) == read_long_loop(buf, pos, 0, 0)

RECURSIVE skip_long(_, _)
skip_long(buf, pos) ==
    IF pos < Len(buf) /\ buf[pos + 1] >= 128
    THEN skip_long(buf, pos + 1)
    ELSE IF pos < Len(buf) THEN pos + 1 ELSE pos

\* String::from_utf8: well-formed UTF-8 (RFC 3629), checked from index i on
RECURSIVE ValidUtf8From(_, _)
ValidUtf8From(bytes, i) ==
    LET n == Len(bytes)
        Cont(j, lo, hi) == j <= n /\ bytes[j] >= lo /\ bytes[j] <= hi
        b == bytes[i]
    IN IF i > n THEN TRUE
       ELSE IF b < 128 THEN ValidUtf8From(bytes, i + 1)
       ELSE IF b >= 194 /\ b <= 223
            THEN Cont(i + 1, 128, 191) /\ ValidUtf8From(bytes, i + 2)
       ELSE IF b >= 224 /\ b <= 239
            THEN /\ Cont(i + 1, IF b = 224 THEN 160 ELSE 128, IF b = 237 THEN 159 ELSE 191)
                 /\ Cont(i + 2, 128, 191)
                 /\ ValidUtf8From(bytes, i + 3)
       ELSE IF b >= 240 /\ b <= 244
            THEN /\ Cont(i + 1, IF b = 240 THEN 144 ELSE 128, IF b = 244 THEN 143 ELSE 191)
                 /\ Cont(i + 2, 128, 191)
                 /\ Cont(i + 3, 128, 191)
                 /\ ValidUtf8From(bytes, i + 4)
       ELSE FALSE

from_utf8_ok(bytes) == ValidUtf8From(bytes, 1)

\* read_string without the `length < 0` test of line 74
read_string_with_sign_unchecked(buf, length) ==
    IF ~length.some
    THEN [ok |-> FALSE, err |-> ParseError("ExpectedLong", 0, 0),
          str |-> <<>>, pos |-> length.pos]
    ELSE IF length.pos + length.val > Len(buf)
    THEN [ok |-> FALSE, err |-> ParseError("InvalidLengthString", 0, 0),
          str |-> <<>>, pos |-> length.pos]
    ELSE [ok |-> TRUE, err |-> NoErr,
          str |-> SubSeq(buf, length.pos + 1, length.pos + length.val),
          pos |-> length.pos + length.val]

\* read_string without the end-of-buffer test of line 74
read_string_with_end_unchecked(buf, length) ==
    IF ~length.some
    THEN [ok |-> FALSE, err |-> ParseError("ExpectedLong", 0, 0),
          str |-> <<>>, pos |-> length.pos]
    ELSE IF length.val < 0
    THEN [ok |-> FALSE, err |-> ParseError("InvalidLengthString", 0, 0),
          str |-> <<>>, pos |-> length.pos]
    ELSE [ok |-> TRUE, err |-> NoErr,
          str |-> SubSeq(buf, length.pos + 1,
                         IF length.pos + length.val > Len(buf) THEN Len(buf)
                         ELSE length.pos + length.val),
          pos |-> length.pos + length.val]

\* read_string reporting a missing length long as an invalid length
read_string_with_one_error(buf, length) ==
    IF ~length.some \/ length.val < 0 \/ length.pos + length.val > Len(buf)
    THEN [ok |-> FALSE, err |-> ParseError("InvalidLengthString", 0, 0),
          str |-> <<>>, pos |-> length.pos]
    ELSE [ok |-> from_utf8_ok(SubSeq(buf, length.pos + 1, length.pos + length.val)),
          err |-> IF from_utf8_ok(SubSeq(buf, length.pos + 1, length.pos + length.val))
                  THEN NoErr ELSE ParseError("InvalidString", 0, 0),
          str |-> SubSeq(buf, length.pos + 1, length.pos + length.val),
          pos |-> length.pos + length.val]

\* read_string once read_long has given `length`
read_string_with(buf, length) ==
    IF ~length.some
    THEN [ok |-> FALSE, err |-> ParseError("ExpectedLong", 0, 0),
          str |-> <<>>, pos |-> length.pos]
    ELSE IF length.val < 0 \/ length.pos + length.val > Len(buf)
    THEN [ok |-> FALSE, err |-> ParseError("InvalidLengthString", 0, 0),
          str |-> <<>>, pos |-> length.pos]
    ELSE LET start_pos == length.pos
             end_pos == length.pos + length.val
         IN IF from_utf8_ok(SubSeq(buf, start_pos + 1, end_pos))
            THEN [ok |-> TRUE, err |-> NoErr,
                  str |-> SubSeq(buf, start_pos + 1, end_pos), pos |-> end_pos]
            ELSE [ok |-> FALSE, err |-> ParseError("InvalidString", 0, 0),
                  str |-> <<>>, pos |-> end_pos]

\* Result<String> and the position the reader is left at
read_string(buf, pos) == read_string_with(buf, read_long(buf, pos))

Tag(name, value) == [name |-> name, value |-> value]

\* TagsReader { buffer, pos: 0 } entering read_tags
\*   pc   "block": at the head of the while loop; "record": inside the for loop
\*        with `left` iterations to go; "done": read_tags has returned `res`
ReaderInit ==
    [pos |-> 0, tags |-> <<>>, left |-> 0, pc |-> "block", res |-> "none", err |-> NoErr]

\* read_tags treating the end of the buffer at a block count as an error
BlockStepWithEndAsError(st, length, after) ==
    IF ~length.some
    THEN [st EXCEPT !.pos = length.pos, !.pc = "done", !.res = "Err",
                    !.err = ParseError("ExpectedLong", 0, 0)]
    ELSE [st EXCEPT !.pos = IF length.val < 0 THEN after ELSE length.pos,
                    !.left = IF length.val < 0 THEN -length.val ELSE length.val,
                    !.pc = IF length.val # 0 THEN "record" ELSE "block"]

\* the body of the while loop up to the for loop, `length` being what read_long
\* gave and `after` the position once a negative count's byte size is skipped
BlockStepWith(st, length, after) ==
    IF ~length.some
    THEN [st EXCEPT !.pos = length.pos, !.pc = "done", !.res = "Ok"]
    ELSE LET n == IF length.val < 0 THEN -length.val ELSE length.val
         IN [st EXCEPT !.pos = IF length.val < 0 THEN after ELSE length.pos,
                       !.left = n,
                       !.pc = IF n > 0 THEN "record" ELSE "block"]

\* the size long of a negative block is not skipped
BlockStepMissingSkip(buf, st, length) == BlockStepWith(st, length, length.pos)

BlockStepSkip(buf, st, length) == BlockStepWith(st, length, skip_long(buf, length.pos))

\* the head of `while let Some(ref mut length) = self.read_long()`, with the
\* negative-count branch
BlockStep(buf, st) == BlockStepSkip(buf, st, read_long(buf, st.pos))

RecordStepValue(st, name, value) ==
    IF ~value.ok
    THEN [st EXCEPT !.pos = value.pos, !.pc = "done", !.res = "Err", !.err = value.err]
    ELSE [st EXCEPT !.pos = value.pos,
                    !.tags = Append(st.tags, Tag(name.str, value.str)),
                    !.left = st.left - 1,
                    !.pc = IF st.left - 1 > 0 THEN "record" ELSE "block"]

RecordStepName(buf, st, name) ==
    IF ~name.ok
    THEN [st EXCEPT !.pos = name.pos, !.pc = "done", !.res = "Err", !.err = name.err]
    ELSE RecordStepValue(st, name, read_string(buf, name.pos))

\* one iteration of `for _ in 0..*length`
RecordStep(buf, st) == RecordStepName(buf, st, read_string(buf, st.pos))

ReaderStep(buf, st) ==
    IF st.pc = "block" THEN BlockStep(buf, st) ELSE RecordStep(buf, st)

RECURSIVE read_tags(_, _)
read_tags(buf, st) ==
    IF st.pc = "done" THEN st ELSE read_tags(buf, ReaderStep(buf, st))

\* TagsReader::deserialize: [res |-> "Ok", tags |-> ...] or [res |-> "Err", err |-> ...]
deserialize(buf) == read_tags(buf, ReaderInit)

----------------------------------------------------------------------------
(* bytes::BytesMut and base64, as bundle.rs and indexer.rs use them        *)

\* Buf::get_u16_le / get_u32_le / get_u64_le on the first n bytes (the buffers
\* checked keep every such value below 2^31)
RECURSIVE get_uint_le(_, _)
get_uint_le(data, n) ==
    IF n = 0 THEN 0 ELSE data[1] + 256 * get_uint_le(Tail(data), n - 1)

Base64Common ==
    << "A", "B", "C", "D", "E", "F", "G", "H", "I", "J", "K", "L", "M",
       "N", "O", "P", "Q", "R", "S", "T", "U", "V", "W", "X", "Y", "Z",
       "a", "b", "c", "d", "e", "f", "g", "h", "i", "j", "k", "l", "m",
       "n", "o", "p", "q", "r", "s", "t", "u", "v", "w", "x", "y", "z",
       "0", "1", "2", "3", "4", "5", "6", "7", "8", "9" >>

UrlSafeAlphabet == Base64Common \o << "-", "_" >>
StandardAlphabet == Base64Common \o << "+", "/" >>

\* base64 of `bytes`: 3 bytes give 4 characters, a last group of 1 or 2 bytes gives
\* 2 or 3 characters, followed by "=" up to a multiple of 4 when `pad`
Base64Encode(alphabet, pad, bytes) ==
    LET n == Len(bytes)
        rem == n % 3
        chars == 4 * (n \div 3) + (IF rem = 0 THEN 0 ELSE rem + 1)
        padded == 4 * ((n + 2) \div 3)
        B(i) == IF i <= n THEN bytes[i] ELSE 0
        Sextet(j) ==
            LET g == (j - 1) \div 4
                k == (j - 1) % 4
                v == B(3 * g + 1) * 65536 + B(3 * g + 2) * 256 + B(3 * g + 3)
            IN (v \div (64 ^ (3 - k))) % 64
    IN [j \in 1..(IF pad THEN padded ELSE chars) |->
            IF j <= chars THEN alphabet[Sextet(j) + 1] ELSE "="]

\* base64::encode_config(bytes, URL_SAFE_NO_PAD)
encode_config_url_safe_no_pad(bytes) == Base64Encode(UrlSafeAlphabet, FALSE, bytes)

\* base64::encode(bytes): the standard alphabet, padded
encode(bytes) == Base64Encode(StandardAlphabet, TRUE, bytes)

----------------------------------------------------------------------------
(* BundleItem and BundleStream, transaction/bundle.rs                      *)

\* a try_from whose last arm is missing
SignatureTypeBelowLast(value) == value \in 1..7

\* SignatureType::try_from accepts exactly 1..=8
SignatureTypeValid(value) == value \in 1..8

\* SIG_CONFIG with the two sizes of every entry exchanged
SIG_CONFIG_swapped(value) ==
    CASE value = 1 -> <<512, 512>>
      [] value = 2 -> <<32, 64>>
      [] value = 3 -> <<65, 65>>
      [] value = 4 -> <<32, 64>>
      [] value = 5 -> <<32, 64>>
      [] value = 6 -> <<1025, 2052>>
      [] value = 7 -> <<42, 65>>
      [] value = 8 -> <<33, 128>>

\* SIG_CONFIG[&signature_type]: (signature size, owner size)
SIG_CONFIG(value) ==
    CASE value = 1 -> <<512, 512>>
      [] value = 2 -> <<64, 32>>
      [] value = 3 -> <<65, 65>>
      [] value = 4 -> <<64, 32>>
      [] value = 5 -> <<64, 32>>
      [] value = 6 -> <<2052, 1025>>
      [] value = 7 -> <<65, 42>>
      [] value = 8 -> <<128, 33>>

None == [some |-> FALSE, v |-> <<>>]
Some(x) == [some |-> TRUE, v |-> x]

NoItem ==
    [id |-> <<>>, signature |-> <<>>, owner |-> <<>>, target |-> None,
     anchor |-> None, tags |-> <<>>, data |-> <<>>]

\* Result<BundleItem>; kind "Panic" is a panic raised by a BytesMut operation
\* (get_* / split_to / advance past the end), which unwinds out of the caller
ItemOk(item) == [kind |-> "Ok", item |-> item, err |-> NoErr]
ItemErr(e) == [kind |-> "Err", item |-> NoItem, err |-> e]
ItemPanic == [kind |-> "Panic", item |-> NoItem, err |-> NoErr]

OptPanic == [kind |-> "Panic", val |-> None, err |-> NoErr, rest |-> <<>>]

\* Result<Option<String>> and the bytes left in `data`
read_optional_string(data) ==
    IF Len(data) < 1 THEN OptPanic
    ELSE CASE data[1] = 0 ->
                [kind |-> "Ok", val |-> None, err |-> NoErr, rest |-> Drop(1, data)]
           [] data[1] = 1 ->
                IF Len(data) < 33 THEN OptPanic
                ELSE [kind |-> "Ok",
                      val |-> Some(encode_config_url_safe_no_pad(SubSeq(data, 2, 33))),
                      err |-> NoErr, rest |-> Drop(33, data)]
           [] OTHER ->
                \* Err(ParseError::InvalidPresenceByte(data.get_u8())): a second get_u8
                IF Len(data) < 2 THEN OptPanic
                ELSE [kind |-> "Err", val |-> None,
                      err |-> ParseError("InvalidPresenceByte", data[2], 0),
                      rest |-> Drop(2, data)]

TagsPanic == [kind |-> "Panic", tags |-> <<>>, err |-> NoErr, rest |-> <<>>]

\* lines 84-88 without the comparison of line 85
parse_item_tags_unchecked(tags_length, tags, rest) ==
    IF tags.res = "Err"
    THEN [kind |-> "Err", tags |-> <<>>, err |-> tags.err, rest |-> rest]
    ELSE [kind |-> "Ok", tags |-> tags.tags, err |-> NoErr, rest |-> rest]

\* lines 84-88: what TagsReader::deserialize gave, against the declared count
parse_item_tags_check(tags_length, tags, rest) ==
    IF tags.res = "Err"
    THEN [kind |-> "Err", tags |-> <<>>, err |-> tags.err, rest |-> rest]
    ELSE IF Len(tags.tags) # tags_length
    THEN [kind |-> "Err", tags |-> <<>>,
          err |-> ParseError("InvalidTagsLength", tags_length, Len(tags.tags)),
          rest |-> rest]
    ELSE [kind |-> "Ok", tags |-> tags.tags, err |-> NoErr, rest |-> rest]

\* lines 82-91 entering the branch of line 82 whatever tags_length is
parse_item_tags_block_any_count(tags_length, num_bytes_for_tags, data) ==
    IF num_bytes_for_tags > 0
    THEN IF num_bytes_for_tags > Len(data) THEN TagsPanic
         ELSE parse_item_tags_check(tags_length,
                                    deserialize(Take(num_bytes_for_tags, data)),
                                    Drop(num_bytes_for_tags, data))
    ELSE [kind |-> "Ok", tags |-> <<>>, err |-> NoErr, rest |-> data]

\* lines 82-91, `data` being what follows the two u64 fields
parse_item_tags_block(tags_length, num_bytes_for_tags, data) ==
    IF tags_length > 0 /\ num_bytes_for_tags > 0
    THEN IF num_bytes_for_tags > Len(data) THEN TagsPanic
         ELSE parse_item_tags_check(tags_length,
                                    deserialize(Take(num_bytes_for_tags, data)),
                                    Drop(num_bytes_for_tags, data))
    ELSE [kind |-> "Ok", tags |-> <<>>, err |-> NoErr, rest |-> data]

\* lines 80-91: the tags of an item, from the bytes that follow the anchor
parse_item_tags(data) ==
    IF Len(data) < 16 THEN TagsPanic
    ELSE parse_item_tags_block(get_uint_le(data, 8), get_uint_le(Drop(8, data), 8),
                               Drop(16, data))

\* lines 93-103
parse_item_build(id, signature, owner, target, anchor, tags) ==
    CASE tags.kind = "Panic" -> ItemPanic
      [] tags.kind = "Err" -> ItemErr(tags.err)
      [] OTHER -> ItemOk([id |-> id,
                          signature |-> signature,
                          owner |-> owner,
                          target |-> target,
                          anchor |-> anchor,
                          tags |-> tags.tags,
                          data |-> encode_config_url_safe_no_pad(tags.rest)])

\* lines 78-91
parse_item_anchor(id, signature, owner, target, anchor) ==
    CASE anchor.kind = "Panic" -> ItemPanic
      [] anchor.kind = "Err" -> ItemErr(anchor.err)
      [] OTHER -> parse_item_build(id, signature, owner, target, anchor.val,
                                   parse_item_tags(anchor.rest))

\* lines 77-78
parse_item_target(id, signature, owner, target) ==
    CASE target.kind = "Panic" -> ItemPanic
      [] target.kind = "Err" -> ItemErr(target.err)
      [] OTHER -> parse_item_anchor(id, signature, owner, target.val,
                                    read_optional_string(target.rest))

\* lines 73-77, `data` being what follows the discriminant
parse_item_fields(data, id, sig_size, owner_size) ==
    IF Len(data) < sig_size \/ Len(data) - sig_size < owner_size THEN ItemPanic
    ELSE parse_item_target(
             id,
             encode_config_url_safe_no_pad(Take(sig_size, data)),
             encode_config_url_safe_no_pad(SubSeq(data, sig_size + 1, sig_size + owner_size)),
             read_optional_string(Drop(sig_size + owner_size, data)))

\* lines 71-73
parse_item_signature_type(data, id, value) ==
    IF ~SignatureTypeValid(value)
    THEN ItemErr(ParseError("InvalidSignatureType", value, 0))
    ELSE parse_item_fields(data, id, SIG_CONFIG(value)[1], SIG_CONFIG(value)[2])

\* BundleItem::parse_item(data, id)
parse_item(data, id) ==
    IF Len(data) < 2 THEN ItemPanic
    ELSE parse_item_signature_type(Drop(2, data), id, get_uint_le(data, 2))

\* the header table: num_entries times {u32 size, 28 bytes skipped, 32 bytes id}
RECURSIVE read_entries(_, _, _)
read_entries(data, left, entries) ==
    IF left = 0 THEN [kind |-> "Ok", entries |-> entries, bytes |-> data]
    ELSE IF Len(data) < 64 THEN [kind |-> "Panic", entries |-> entries, bytes |-> data]
    ELSE read_entries(Drop(64, data), left - 1,
                      Append(entries,
                             [size |-> get_uint_le(data, 4),
                              id |-> encode_config_url_safe_no_pad(SubSeq(data, 33, 64))]))

\* state: "none" no stream yet; "ready" a BundleStream; "panic" BundleItem::stream
\* panicked and built nothing; "poll_panicked" a poll_next call panicked
NoStream == [state |-> "none", bytes |-> <<>>, entries |-> <<>>, current_entry |-> 0]

\* lines 117-121
stream_of(header) ==
    IF header.kind = "Panic"
    THEN [NoStream EXCEPT !.state = "panic"]
    ELSE [state |-> "ready", bytes |-> header.bytes,
          entries |-> header.entries, current_entry |-> 0]

\* BundleItem::stream(data): Ok(BundleStream), or a panic while reading the header
stream(data) ==
    IF Len(data) < 32
    THEN [NoStream EXCEPT !.state = "panic"]
    ELSE stream_of(read_entries(Drop(32, data), get_uint_le(data, 4), <<>>))

\* Option<Result<BundleItem>> returned by poll_next
PollNone == [kind |-> "None", res |-> ItemPanic]
PollSome(res) == [kind |-> "Some", res |-> res]
PollPanic == [kind |-> "Panic", res |-> ItemPanic]

\* line 152, `bundle` being what parse_item gave (a panic of parse_item unwinds)
poll_next_return(bundle) ==
    IF bundle.kind = "Panic" THEN PollPanic ELSE PollSome(bundle)

\* lines 148-152
poll_next_entry(st, entry) ==
    IF entry.size > Len(st.bytes) THEN PollPanic
    ELSE poll_next_return(parse_item(Take(entry.size, st.bytes), entry.id))

\* BundleStream::poll_next: the value returned
poll_next_value(st) ==
    IF st.current_entry < Len(st.entries)
    THEN poll_next_entry(st, st.entries[st.current_entry + 1])
    ELSE PollNone

\* poll_next without the split_to of line 149: the cursor moves, the bytes stay
poll_next_stream_no_split(st, value) ==
    CASE value.kind = "None" -> st
      [] value.kind = "Panic" -> [st EXCEPT !.state = "poll_panicked"]
      [] value.kind = "Some" -> [st EXCEPT !.current_entry = st.current_entry + 1]

\* poll_next leaving cursor and buffer where they were when the decode failed
poll_next_stream_stuck_on_err(st, value) ==
    CASE value.kind = "None" -> st
      [] value.kind = "Panic" -> [st EXCEPT !.state = "poll_panicked"]
      [] value.kind = "Some" ->
            IF value.res.kind = "Err" THEN st
            ELSE [st EXCEPT !.bytes = Drop(st.entries[st.current_entry + 1].size, st.bytes),
                            !.current_entry = st.current_entry + 1]

\* BundleStream::poll_next: the stream it leaves, `value` being what it returns; a
\* panic unwinds with the cursor not advanced and the stream never polled again
poll_next_stream(st, value) ==
    CASE value.kind = "None" -> st
      [] value.kind = "Panic" -> [st EXCEPT !.state = "poll_panicked"]
      [] value.kind = "Some" ->
            [st EXCEPT !.bytes = Drop(st.entries[st.current_entry + 1].size, st.bytes),
                       !.current_entry = st.current_entry + 1]

----------------------------------------------------------------------------
(* The batch decoder, indexer.rs (its errors are anyhow messages; its      *)
(* BundleItem has target and anchor of type String)                        *)

AnyhowError(message, a) == [name |-> message, a |-> a, b |-> 0]

NoBatchItem ==
    [id |-> <<>>, signature |-> <<>>, owner |-> <<>>, target |-> <<>>,
     anchor |-> <<>>, tags |-> <<>>, data |-> <<>>]

BatchPanic == [kind |-> "Panic", item |-> NoBatchItem, err |-> NoErr]
BatchErr(e) == [kind |-> "Err", item |-> NoBatchItem, err |-> e]

PresencePanic == [kind |-> "Panic", val |-> <<>>, err |-> NoErr, rest |-> <<>>]

\* `match presence { 0 => String::new(), 1 => encode_config(split_to(32)), _ => Err }`
read_presence_string(data, message) ==
    IF Len(data) < 1 THEN PresencePanic
    ELSE CASE data[1] = 0 ->
                [kind |-> "Ok", val |-> <<>>, err |-> NoErr, rest |-> Drop(1, data)]
           [] data[1] = 1 ->
                IF Len(data) < 33 THEN PresencePanic
                ELSE [kind |-> "Ok",
                      val |-> encode_config_url_safe_no_pad(SubSeq(data, 2, 33)),
                      err |-> NoErr, rest |-> Drop(33, data)]
           [] OTHER -> [kind |-> "Err", val |-> <<>>,
                        err |-> AnyhowError(message, data[1]), rest |-> Drop(1, data)]

\* crate::tags::TagsReader::deserialize (src/tags.rs): the same reader as
\* transaction/tags.rs, every error an anyhow message
parse_tags_error(tags) ==
    IF tags.res = "Err" THEN [tags EXCEPT !.err = AnyhowError(tags.err.name, 0)] ELSE tags

parse_tags(data) == parse_tags_error(deserialize(data))

\* lines 160-175
parse_bundle_item_build(id, signature, owner, target, anchor, tags_length, tags, rest) ==
    IF tags.res = "Err" THEN BatchErr(tags.err)
    ELSE IF tags_length >= 0 /\ Len(tags.tags) # tags_length
    THEN BatchErr(AnyhowError("Different number of tags", tags_length))
    ELSE [kind |-> "Ok",
          item |-> [id |-> id, signature |-> signature, owner |-> owner,
                    target |-> target, anchor |-> anchor, tags |-> tags.tags,
                    data |-> encode_config_url_safe_no_pad(rest)],
          err |-> NoErr]

\* lines 156-163, `data` being what follows the two u64 fields
parse_bundle_item_tags(id, signature, owner, target, anchor, tags_length, num_bytes_for_tags, data) ==
    IF tags_length > 0 /\ num_bytes_for_tags > 0
    THEN IF num_bytes_for_tags > Len(data) THEN BatchPanic
         ELSE parse_bundle_item_build(id, signature, owner, target, anchor, tags_length,
                                      parse_tags(Take(num_bytes_for_tags, data)),
                                      Drop(num_bytes_for_tags, data))
    ELSE parse_bundle_item_build(id, signature, owner, target, anchor, -1,
                                 [res |-> "Ok", tags |-> <<>>, err |-> NoErr], data)

\* lines 142-155
parse_bundle_item_anchor(id, signature, owner, target, anchor) ==
    CASE anchor.kind = "Panic" -> BatchPanic
      [] anchor.kind = "Err" -> BatchErr(anchor.err)
      [] Len(anchor.rest) < 16 -> BatchPanic
      [] OTHER -> parse_bundle_item_tags(id, signature, owner, target, anchor.val,
                                         get_uint_le(anchor.rest, 8),
                                         get_uint_le(Drop(8, anchor.rest), 8),
                                         Drop(16, anchor.rest))

\* lines 130-142
parse_bundle_item_target(id, signature, owner, target) ==
    CASE target.kind = "Panic" -> BatchPanic
      [] target.kind = "Err" -> BatchErr(target.err)
      [] OTHER -> parse_bundle_item_anchor(
                      id, signature, owner, target.val,
                      read_presence_string(target.rest, "Error presence anchor byte"))

\* lines 120-130, `data` being what follows the discriminant
parse_bundle_item_fields(data, id, sig_size, owner_size) ==
    IF Len(data) < sig_size \/ Len(data) - sig_size < owner_size THEN BatchPanic
    ELSE parse_bundle_item_target(
             id,
             encode_config_url_safe_no_pad(Take(sig_size, data)),
             encode_config_url_safe_no_pad(SubSeq(data, sig_size + 1, sig_size + owner_size)),
             read_presence_string(Drop(sig_size + owner_size, data),
                                  "Error presence target byte"))

\* lines 116-120
parse_bundle_item_signature_type(data, id, value) ==
    IF ~SignatureTypeValid(value)
    THEN BatchErr(AnyhowError("Invalid value for SignatureType", 0))
    ELSE parse_bundle_item_fields(data, id, SIG_CONFIG(value)[1], SIG_CONFIG(value)[2])

\* parse_bundle_item(data, id)
parse_bundle_item(data, id) ==
    IF Len(data) < 2 THEN BatchPanic
    ELSE parse_bundle_item_signature_type(Drop(2, data), id, get_uint_le(data, 2))

\* the first loop of parse_bundle: the header table, ids encoded with base64::encode
RECURSIVE parse_bundle_entries(_, _, _)
parse_bundle_entries(data, left, entries) ==
    IF left = 0 THEN [kind |-> "Ok", entries |-> entries, bytes |-> data]
    ELSE IF Len(data) < 64 THEN [kind |-> "Panic", entries |-> entries, bytes |-> data]
    ELSE parse_bundle_entries(Drop(64, data), left - 1,
                              Append(entries, [size |-> get_uint_le(data, 4),
                                               id |-> encode(SubSeq(data, 33, 64))]))

\* the second loop of parse_bundle: `parse_bundle_item(&mut data.split_to(size), id)?`
RECURSIVE parse_bundle_items(_, _, _)
parse_bundle_push(data, entries, items, item) ==
    IF item.kind = "Ok"
    THEN parse_bundle_items(Drop(entries[1].size, data), Tail(entries),
                            Append(items, item.item))
    ELSE [kind |-> item.kind, items |-> <<>>, err |-> item.err]

parse_bundle_items(data, entries, items) ==
    IF entries = <<>> THEN [kind |-> "Ok", items |-> items, err |-> NoErr]
    ELSE IF entries[1].size > Len(data) THEN [kind |-> "Panic", items |-> <<>>, err |-> NoErr]
    ELSE parse_bundle_push(data, entries, items,
                           parse_bundle_item(Take(entries[1].size, data), entries[1].id))

NoBatch == [kind |-> "none", items |-> <<>>, err |-> NoErr]

parse_bundle_header(header) ==
    IF header.kind = "Panic"
    THEN [kind |-> "Panic", items |-> <<>>, err |-> NoErr]
    ELSE parse_bundle_items(header.bytes, header.entries, <<>>)

\* parse_bundle(data): Result<Vec<BundleItem>>
parse_bundle(data) ==
    IF Len(data) < 32 THEN [kind |-> "Panic", items |-> <<>>, err |-> NoErr]
    ELSE parse_bundle_header(parse_bundle_entries(Drop(32, data), get_uint_le(data, 4),
                                                  <<>>))

----------------------------------------------------------------------------
(* LocalStorageFS (storage/fs.rs) over a file system of paths and inodes,  *)
(* and Indexer::index (indexer/indexer_default.rs)                         *)

\* serde_json::to_vec(&bundle_item): one JSON object, no separator after it
to_vec(item) == [kind |-> "json", item |-> item]

\* the part of a record a failed write_all left behind
partial_write(item) == [kind |-> "partial", item |-> item]

\* an open that gives every session a file of its own, linked at the path
open_append_create_exclusive(links, inodes, tx) ==
    [links |-> [links EXCEPT ![tx] = Len(inodes) + 1],
     files |-> Append(inodes, <<>>),
     fd |-> Len(inodes) + 1]

\* File::options().append(true).create(true).open(path): the inode linked at the
\* path, a new empty one when the path does not exist
open_append_create(links, inodes, tx) ==
    IF links[tx] # 0
    THEN [links |-> links, files |-> inodes, fd |-> links[tx]]
    ELSE [links |-> [links EXCEPT ![tx] = Len(inodes) + 1],
          files |-> Append(inodes, <<>>),
          fd |-> Len(inodes) + 1]

\* write_all on a descriptor opened for appending: at the end of the inode,
\* whichever path it is linked at now
write_append(inodes, fd, chunk) == [inodes EXCEPT ![fd] = Append(@, chunk)]

\* a copy in place of the rename: the source path stays
rename_from_keeping(from, tx) == from

\* tokio::fs::rename(from, to): `to` is linked to the inode of `from`, `from` is gone
rename_from(from, tx) == [from EXCEPT ![tx] = 0]
rename_to(from, to, tx) == [to EXCEPT ![tx] = from[tx]]

\* a rollback that deletes nothing
remove_file_skipped(links, tx) == links

\* tokio::fs::remove_file(path).await.unwrap_or_default()
remove_file(links, tx) == [links EXCEPT ![tx] = 0]

\* a call of Indexer::index
\*   pc       where it is: "idle", "download", "poll", "store", "rollback", "commit",
\*            "done" (returned `result`), "panicked" (unwound by a panic)
\*   tx       transaction_id
\*   fd       LocalStorageFS.fs: the inode it writes to, 0 when none is open
\*   items    the BundleStream; item: the value of the last Some(Ok(value))
\*   result   "none", "Ok", or the IndexerError variant returned
\*   src      what was downloaded; calls: the polls and session calls made so far,
\*            in order; args: the items passed to store; session: whether
\*            LocalStorageFS::new returned Ok; overlap: whether another run of the
\*            same transaction id held a session while this one did; touched:
\*            whether a step of this run created or changed the destination file
RunIdle ==
    [pc |-> "idle", tx |-> "none", fd |-> 0, items |-> NoStream, item |-> NoItem,
     result |-> "none", src |-> NoSource, calls |-> <<>>, args |-> <<>>,
     session |-> FALSE, overlap |-> FALSE, touched |-> FALSE]

\* ev: the run that made the last step, the call it made, whether the call did
\* what it was asked to (for a poll: gave Some(Ok)), and whether the step created
\* or changed a destination file
NoEv == [run |-> 0, op |-> "none", ok |-> FALSE, destChanged |-> FALSE]

IndexIdle ==
    /\ staging = [t \in TxIds |-> 0]
    /\ dest = [t \in TxIds |-> 0]
    /\ files = <<>>
    /\ runs = [r \in Runs |-> RunIdle]
    /\ ev = NoEv

NoParse == [kind |-> "none", item |-> NoItem, err |-> NoErr]

ItemIdle ==
    /\ item_src = NoItemParams
    /\ item_data = <<>>
    /\ item_res = NoParse

NoLong == [some |-> FALSE, val |-> 0, pos |-> -1]

LongIdle ==
    /\ long_buf = <<>>
    /\ long_pos = -1
    /\ long_read = NoLong
    /\ long_skip = -1

\* the destination files as a reader sees them
DestView(links, inodes) ==
    [t \in TxIds |-> [exists |-> links[t] # 0,
                      content |-> IF links[t] # 0 THEN inodes[links[t]] ELSE <<>>]]

HoldsSession(run) == run.pc \in {"download", "poll", "store", "rollback", "commit"}

MarkOverlap(rs) ==
    [r \in Runs |->
        [rs[r] EXCEPT !.overlap =
            @ \/ (/\ HoldsSession(rs[r])
                  /\ \E q \in Runs \ {r} : HoldsSession(rs[q]) /\ rs[q].tx = rs[r].tx)]]

\* one step of run r: the file system and the run it leaves
Step(r, op, ok, run, newStaging, newDest, newFiles) ==
    /\ staging' = newStaging
    /\ dest' = newDest
    /\ files' = newFiles
    /\ runs' = MarkOverlap(
           [runs EXCEPT ![r] =
               [run EXCEPT !.touched =
                   @ \/ DestView(newDest, newFiles) # DestView(dest, files)]])
    /\ ev' = [run |-> r, op |-> op, ok |-> ok,
              destChanged |-> DestView(newDest, newFiles) # DestView(dest, files)]
    /\ UNCHANGED <<tagsVars, streamVars, itemVars, longVars>>

NewOpened(r, tx, opened) ==
    Step(r, "new", TRUE,
         [runs[r] EXCEPT !.pc = "download", !.tx = tx, !.fd = opened.fd,
                         !.session = TRUE],
         opened.links, dest, opened.files)

\* line 29-30: LocalStorageFS::new(transaction_id, storage_folder).await?
New(r) ==
    /\ runs[r].pc = "idle"
    /\ IF r = 1 THEN TRUE ELSE runs[r - 1].pc # "idle"
    /\ \E tx \in TxChoices(r) :
        \/ NewOpened(r, tx, open_append_create(staging, files, tx))
        \/ \* create_dir_all or open fails
           Step(r, "new", FALSE,
                [runs[r] EXCEPT !.pc = "done", !.tx = tx, !.result = "Storage"],
                staging, dest, files)

Downloaded(r, src, items) ==
    Step(r, "download", items.state = "ready",
         [runs[r] EXCEPT !.pc = IF items.state = "ready" THEN "poll" ELSE "panicked",
                         !.fd = IF items.state = "ready" THEN @ ELSE 0,
                         !.src = src, !.items = items],
         staging, dest, files)

\* line 31: self.downloader.download(transaction_id).await?
Download(r) ==
    /\ runs[r].pc = "download"
    /\ \/ \E src \in IndexSources : Downloaded(r, src, stream(SourceBytes(src)))
       \/ \* the request, or the base64 envelope, fails: Err(ClientError)
          Step(r, "download", FALSE,
               [runs[r] EXCEPT !.pc = "done", !.fd = 0, !.result = "Downloader"],
               staging, dest, files)

\* lines 33-45: where `match item` sends the run, with a decode error not ending it
PollTargetIgnoringErr(value) ==
    CASE value.kind = "None" -> "commit"
      [] value.kind = "Panic" -> "panicked"
      [] value.res.kind = "Ok" -> "store"
      [] OTHER -> "poll"

\* lines 32-46: where `while let Some(item) = items.next().await { match item ...`
\* sends the run
PollTarget(value) ==
    CASE value.kind = "None" -> "commit"
      [] value.kind = "Panic" -> "panicked"
      [] value.res.kind = "Ok" -> "store"
      [] OTHER -> "rollback"

PollCall(value) ==
    CASE value.kind = "None" -> "poll_none"
      [] value.kind = "Panic" -> "poll_panic"
      [] value.res.kind = "Ok" -> "poll_ok"
      [] OTHER -> "poll_err"

Polled(r, value) ==
    Step(r, "poll", value.kind = "Some" /\ value.res.kind = "Ok",
         [runs[r] EXCEPT !.pc = PollTarget(value),
                         !.fd = IF value.kind = "Panic" THEN 0 ELSE @,
                         !.items = poll_next_stream(@, value),
                         !.item = value.res.item,
                         !.calls = Append(@, PollCall(value))],
         staging, dest, files)

\* line 32: items.next().await, and the match on what it gives
Poll(r) ==
    /\ runs[r].pc = "poll"
    /\ Polled(r, poll_next_value(runs[r].items))

\* line 34: storage.store(value).await
Store(r) ==
    /\ runs[r].pc = "store"
    /\ \/ Step(r, "store", TRUE,
               [runs[r] EXCEPT !.pc = "poll", !.calls = Append(@, "store_ok"),
                               !.args = Append(@, runs[r].item)],
               staging, dest, write_append(files, runs[r].fd, to_vec(runs[r].item)))
       \/ \* write_all or flush fails, with part of the record written or none
          \E chunks \in {<<>>, <<partial_write(runs[r].item)>>} :
              Step(r, "store", FALSE,
                   [runs[r] EXCEPT !.pc = "rollback", !.calls = Append(@, "store_err"),
                                   !.args = Append(@, runs[r].item)],
                   staging, dest,
                   [files EXCEPT ![runs[r].fd] = @ \o chunks])

\* lines 36-37 and 42-43: storage.rollback().await; return Err(..).  remove_file
\* may fail (the directory refuses the deletion): rollback discards the error and
\* the staging file stays
Rollback(r) ==
    /\ runs[r].pc = "rollback"
    /\ \E removed \in BOOLEAN :
          Step(r, "rollback", removed,
               [runs[r] EXCEPT !.pc = "done", !.fd = 0,
                               !.calls = Append(@, "rollback"),
                               !.result = IF runs[r].calls[Len(runs[r].calls)] = "store_err"
                                          THEN "Storage" ELSE "Parser"],
               IF removed THEN remove_file(staging, runs[r].tx) ELSE staging,
               dest, files)

\* lines 47-48: storage.commit().await?; Ok(())
Commit(r) ==
    /\ runs[r].pc = "commit"
    /\ \/ /\ staging[runs[r].tx] # 0
          /\ Step(r, "commit", TRUE,
                  [runs[r] EXCEPT !.pc = "done", !.fd = 0, !.result = "Ok",
                                  !.calls = Append(@, "commit_ok")],
                  rename_from(staging, runs[r].tx),
                  rename_to(staging, dest, runs[r].tx), files)
       \/ \* rename fails: the staging path is gone, or an I/O error (EXDEV, ...)
          Step(r, "commit", FALSE,
               [runs[r] EXCEPT !.pc = "done", !.fd = 0, !.result = "Storage",
                               !.calls = Append(@, "commit_err")],
               staging, dest, files)

----------------------------------------------------------------------------
(* TagsSpec: TagsReader::deserialize on every buffer of TagBuffers, one    *)
(* loop iteration of read_tags per step.                                   *)

\* tagsEv: the last step of read_tags and the history the properties speak of
\*   op, some, count   the step, and for a block step the Option<i64> read_long gave
\*   from, afterCount  pos before the step, and pos right after the block count
\*   blockN, blockBase the record count of the current block and tags.len() when it began
\*   blockNeg          whether the current block's count was negative
\*   tagsAtZero        tags.len() when a block count of 0 was first read, else -1
NoTagsEv ==
    [op |-> "none", some |-> FALSE, count |-> 0, from |-> 0, afterCount |-> 0,
     blockN |-> 0, blockBase |-> 0, blockNeg |-> FALSE, tagsAtZero |-> -1]

TagsIdle ==
    /\ buffer = <<>>
    /\ reader = [ReaderInit EXCEPT !.pc = "idle"]
    /\ tagsEv = NoTagsEv

StreamIdle ==
    /\ input = <<>>
    /\ bstream = NoStream
    /\ polls = <<>>
    /\ batch = NoBatch

TagsInit ==
    /\ buffer \in TagBuffers
    /\ reader = ReaderInit
    /\ tagsEv = NoTagsEv
    /\ StreamIdle
    /\ IndexIdle
    /\ ItemIdle
    /\ LongIdle

BlockEvent(length) ==
    [op |-> "block", some |-> length.some, count |-> length.val,
     from |-> reader.pos, afterCount |-> length.pos,
     blockN |-> IF length.val < 0 THEN -length.val ELSE length.val,
     blockBase |-> Len(reader.tags),
     blockNeg |-> length.some /\ length.val < 0,
     tagsAtZero |-> IF tagsEv.tagsAtZero < 0 /\ length.some /\ length.val = 0
                    THEN Len(reader.tags) ELSE tagsEv.tagsAtZero]

\* read the next block count (and skip the byte size of a negative block)
ReadBlock ==
    /\ reader.pc = "block"
    /\ tagsEv' = BlockEvent(read_long(buffer, reader.pos))
    /\ reader' = BlockStep(buffer, reader)
    /\ UNCHANGED <<buffer, streamVars, indexVars, itemVars, longVars>>

\* read one record: name string, value string, push
ReadRecord ==
    /\ reader.pc = "record"
    /\ tagsEv' = [tagsEv EXCEPT !.op = "record", !.some = FALSE, !.count = 0,
                                !.from = reader.pos, !.afterCount = reader.pos]
    /\ reader' = RecordStep(buffer, reader)
    /\ UNCHANGED <<buffer, streamVars, indexVars, itemVars, longVars>>

TagsNext == ReadBlock \/ ReadRecord

TagsSpec == TagsInit /\ [][TagsNext]_vars

\* deserialize is one synchronous call: its loop runs on until it returns
TagsLiveSpec == TagsSpec /\ WF_vars(TagsNext)

----------------------------------------------------------------------------
(* StreamSpec: one raw bundle of StreamInputs, decoded lazily (stream, then *)
(* poll_next call by call) and in batch (parse_bundle).                     *)

StreamInit ==
    /\ input \in StreamInputs
    /\ bstream = NoStream
    /\ polls = <<>>
    /\ batch = NoBatch
    /\ TagsIdle
    /\ IndexIdle
    /\ ItemIdle
    /\ LongIdle

\* BundleItem::stream(BytesMut::from(input))
Stream ==
    /\ bstream.state = "none"
    /\ bstream' = stream(input)
    /\ UNCHANGED <<input, polls, batch, tagsVars, indexVars, itemVars, longVars>>

EndPolls == Cardinality({i \in 1..Len(polls) : polls[i].kind = "None"})

\* stream.next().await
PollNext ==
    /\ bstream.state = "ready"
    /\ EndPolls < MaxEndPolls
    /\ polls' = Append(polls, poll_next_value(bstream))
    /\ bstream' = poll_next_stream(bstream, polls'[Len(polls')])
    /\ UNCHANGED <<input, batch, tagsVars, indexVars, itemVars, longVars>>

\* parse_bundle(&mut BytesMut::from(input))
ParseBundle ==
    /\ batch.kind = "none"
    /\ batch' = parse_bundle(input)
    /\ UNCHANGED <<input, bstream, polls, tagsVars, indexVars, itemVars, longVars>>

StreamNext == Stream \/ PollNext \/ ParseBundle

StreamSpec == StreamInit /\ [][StreamNext]_vars

----------------------------------------------------------------------------
(* ItemSpec: BundleItem::parse_item on every item slice of ItemParams.     *)

\* the bytes of the slice made up as p says; a discriminant outside 1..=8 is
\* followed by a signature and an owner of 5 bytes each
ItemOf(p) ==
    ItemCut(ItemWhole(p,
                      IF SignatureTypeValid(p.sig) THEN SIG_CONFIG(p.sig) ELSE <<5, 5>>,
                      TagBlockBytes(p.shape, p.recs)),
            p.cut)

ItemId == encode_config_url_safe_no_pad(Fill(32, 200))

ItemInit ==
    /\ item_src \in ItemParams
    /\ item_data = ItemOf(item_src)
    /\ item_res = NoParse
    /\ TagsIdle
    /\ StreamIdle
    /\ IndexIdle
    /\ LongIdle

\* BundleItem::parse_item(item_data, id)
ParseItem ==
    /\ item_res.kind = "none"
    /\ item_res' = parse_item(item_data, ItemId)
    /\ UNCHANGED <<item_src, item_data, tagsVars, streamVars, indexVars, longVars>>

ItemNext == ParseItem

ItemSpec == ItemInit /\ [][ItemNext]_vars

----------------------------------------------------------------------------
(* LongSpec: read_long and skip_long, each called once on a reader holding *)
(* a buffer of LongBuffers at a position inside it or at its end.          *)

LongInit ==
    /\ long_buf \in LongBuffers
    /\ long_pos \in 0..Len(long_buf)
    /\ long_read = NoLong
    /\ long_skip = -1
    /\ TagsIdle
    /\ StreamIdle
    /\ IndexIdle
    /\ ItemIdle

\* TagsReader { buffer: long_buf, pos: long_pos }.read_long()
ReadLong ==
    /\ long_read = NoLong
    /\ long_read' = read_long(long_buf, long_pos)
    /\ UNCHANGED <<long_buf, long_pos, long_skip, tagsVars, streamVars, indexVars, itemVars>>

\* TagsReader { buffer: long_buf, pos: long_pos }.skip_long()
SkipLong ==
    /\ long_skip = -1
    /\ long_skip' = skip_long(long_buf, long_pos)
    /\ UNCHANGED <<long_buf, long_pos, long_read, tagsVars, streamVars, indexVars, itemVars>>

LongNext == ReadLong \/ SkipLong

LongSpec == LongInit /\ [][LongNext]_vars

----------------------------------------------------------------------------
(* Spec: MaxRuns calls of Indexer::index over one file system, their steps *)
(* interleaved in every order (a run may also begin after another ended).  *)

Init == TagsIdle /\ StreamIdle /\ IndexIdle /\ ItemIdle /\ LongIdle

Next ==
    \E r \in Runs :
        New(r) \/ Download(r) \/ Poll(r) \/ Store(r) \/ Rollback(r) \/ Commit(r)

Spec == Init /\ [][Next]_vars

----------------------------------------------------------------------------
(* Tag codec properties, checked under TagsSpec.                           *)

\* C9: once a block count of 0 has been read, deserialize returns Ok with exactly
\* the tags decoded before that 0 (nothing after the 0 is read as a further block).
C9_ZeroTerminates ==
    (reader.pc = "done" /\ tagsEv.tagsAtZero >= 0)
        => (reader.res = "Ok" /\ Len(reader.tags) = tagsEv.tagsAtZero)

\* the end of the varint that starts at pos p: past its continuation bytes and,
\* when the buffer holds one, past the byte that ends it
SizeLongEnd(buf, p) ==
    LET stop == CHOOSE q \in p..Len(buf) :
                    /\ q = Len(buf) \/ buf[q + 1] < 128
                    /\ \A j \in p..(q - 1) : buf[j + 1] >= 128
    IN IF stop < Len(buf) THEN stop + 1 ELSE stop

\* the last tag is the name string `name` and the value string that follows it
LastRecordValueIs(name, value) ==
    /\ reader.tags[Len(reader.tags)] = Tag(name.str, value.str)
    /\ reader.pos = value.pos

LastRecordIs(name) == LastRecordValueIs(name, read_string(buffer, name.pos))

C11_ExhaustedIsOk ==
    [][(reader.pc = "block" /\ reader.pos = Len(buffer))
          => (reader'.pc = "done" /\ reader'.res = "Ok" /\ reader'.err = NoErr
              /\ reader'.tags = reader.tags)]_vars

\* a buffer that ends right behind its first record has been decoded to that record
C11_Witness ==
    /\ reader.pc = "done" /\ reader.res = "Ok"
    /\ tagsEv.op = "block" /\ ~tagsEv.some /\ tagsEv.from = Len(buffer)
    /\ Len(buffer) > 0 /\ Len(reader.tags) = 1

\* the string whose length long starts at p declares a length that is negative or
\* reaches beyond the buffer
DeclaresBadLength(buf, p) ==
    /\ read_long(buf, p).some
    /\ \/ read_long(buf, p).val < 0
       \/ read_long(buf, p).pos + read_long(buf, p).val > Len(buf)

\* the record step read a well-formed name string; where it ended
NameRead(buf, p) ==
    /\ read_long(buf, p).some
    /\ ~DeclaresBadLength(buf, p)
    /\ from_utf8_ok(SubSeq(buf, read_long(buf, p).pos + 1,
                           read_long(buf, p).pos + read_long(buf, p).val))

NameEnd(buf, p) == read_long(buf, p).pos + read_long(buf, p).val

ReturnedErr(name) ==
    reader.pc = "done" /\ reader.res = "Err" /\ reader.err = ParseError(name, 0, 0)

\* C12: a record whose name string, or whose value string behind a well-formed
\* name, declares a negative length or one that reaches beyond the buffer makes
\* deserialize return Err(InvalidLengthString).
C12_InvalidLengthString ==
    tagsEv.op = "record" =>
        /\ DeclaresBadLength(buffer, tagsEv.from) => ReturnedErr("InvalidLengthString")
        /\ (NameRead(buffer, tagsEv.from)
              /\ DeclaresBadLength(buffer, NameEnd(buffer, tagsEv.from)))
             => ReturnedErr("InvalidLengthString")

\* lengths of both kinds: a value string shorter than declared behind a name
\* string, and (in the buffer of the unit test) a negative value length
C12_Witness ==
    /\ tagsEv.op = "record" /\ ReturnedErr("InvalidLengthString")
    /\ NameRead(buffer, tagsEv.from)
    /\ read_long(buffer, NameEnd(buffer, tagsEv.from)).val > 0

\* C13: a record whose name length long, or whose value length long behind a
\* well-formed name, would start at the end of the buffer makes deserialize
\* return Err(ExpectedLong), which is not the InvalidLengthString error.
C13_ExpectedLong ==
    /\ ParseError("ExpectedLong", 0, 0) # ParseError("InvalidLengthString", 0, 0)
    /\ tagsEv.op = "record" =>
          /\ tagsEv.from = Len(buffer) => ReturnedErr("ExpectedLong")
          /\ (NameRead(buffer, tagsEv.from) /\ NameEnd(buffer, tagsEv.from) = Len(buffer))
                => ReturnedErr("ExpectedLong")

\* the buffer ended behind a non-empty name, where the value length was due
C13_Witness ==
    /\ tagsEv.op = "record" /\ ReturnedErr("ExpectedLong")
    /\ NameRead(buffer, tagsEv.from)
    /\ NameEnd(buffer, tagsEv.from) = Len(buffer)
    /\ read_long(buffer, tagsEv.from).val > 0

----------------------------------------------------------------------------
(* Bundle decoder properties, checked under StreamSpec.                    *)

\* the items the polls so far returned as Some(Ok(item))
LazyItems ==
    LET ok == {i \in 1..Len(polls) : polls[i].kind = "Some"}
    IN [i \in 1..Cardinality(ok) |-> polls[i].res.item]

\* the stream was polled through all its entries and every poll gave Some(Ok(_))
DrainedAllOk ==
    /\ bstream.state = "ready"
    /\ bstream.current_entry = Len(bstream.entries)
    /\ \A i \in 1..Len(polls) : polls[i].kind = "Some" => polls[i].res.kind = "Ok"

\* an Option<String> of the lazy item against the String of the batch item, the
\* empty String read as absent
SameOptional(string, option) ==
    IF option.some THEN string = option.v ELSE string = <<>>

SameItem(batchItem, lazyItem) ==
    /\ batchItem.id = lazyItem.id
    /\ batchItem.signature = lazyItem.signature
    /\ batchItem.owner = lazyItem.owner
    /\ SameOptional(batchItem.target, lazyItem.target)
    /\ SameOptional(batchItem.anchor, lazyItem.anchor)
    /\ batchItem.tags = lazyItem.tags
    /\ batchItem.data = lazyItem.data

\* C7: on a valid buffer parse_bundle and the drained BundleStream give the same
\* list of items: same length and, position by position, equal id, signature,
\* owner, target, anchor, tags and data.
C7_BatchEqualsLazy ==
    (DrainedAllOk /\ batch.kind # "none")
        => /\ batch.kind = "Ok"
           /\ Len(batch.items) = Len(LazyItems)
           /\ \A i \in 1..Len(LazyItems) : SameItem(batch.items[i], LazyItems[i])

\* C8: of a BundleStream over N entries exactly the first N polls return Some(_)
\* and every later poll None; current_entry advances by one per such poll and
\* never exceeds N.
C8_OneItemPerPoll ==
    bstream.state \in {"ready", "poll_panicked"}
        => LET N == Len(bstream.entries)
           IN /\ \A i \in 1..Len(polls) :
                    polls[i].kind = IF i <= N THEN "Some" ELSE "None"
              /\ bstream.current_entry = IF Len(polls) <= N THEN Len(polls) ELSE N

----------------------------------------------------------------------------
(* Item decoder properties, checked under ItemSpec.                        *)

Parsed == item_res.kind # "none"

\* C14: a slice whose discriminant v is outside 1..=8 decodes to
\* Err(InvalidSignatureType(v)); every v in 1..=8 has a (signature length, owner
\* length) pair and never decodes to InvalidSignatureType: a whole slice of
\* those lengths decodes Ok.
C14_SignatureType ==
    /\ \A v \in 1..8 : /\ SIG_CONFIG(v) \in Nat \X Nat
                       /\ SIG_CONFIG(v)[1] > 0 /\ SIG_CONFIG(v)[2] > 0
    /\ Parsed =>
          /\ item_src.sig \notin 1..8 =>
                item_res = ItemErr(ParseError("InvalidSignatureType", item_src.sig, 0))
          /\ item_src.sig \in 1..8 =>
                /\ item_res.err.name # "InvalidSignatureType"
                /\ (item_src.target = 0 /\ item_src.anchor = 0 /\ item_src.count = 0
                        /\ item_src.shape = "none" /\ item_src.cut = 0)
                      => item_res.kind = "Ok"

\* discriminant 0 was refused with the value 0
C14_Witness ==
    /\ item_src.sig = 0
    /\ item_res = ItemErr(ParseError("InvalidSignatureType", 0, 0))

\* the first presence byte of the slice that is neither 0 nor 1, or -1
BadPresenceByte(p) ==
    CASE p.target \notin {0, 1} -> p.target
      [] p.anchor \notin {0, 1} -> p.anchor
      [] OTHER -> -1

\* C15: a slice whose target or anchor presence byte is a value b other than 0
\* and 1 decodes to Err(InvalidPresenceByte(b)).
C15_PresenceByteCarried ==
    (Parsed /\ item_src.sig \in 1..8 /\ BadPresenceByte(item_src) >= 0) =>
        item_res = ItemErr(ParseError("InvalidPresenceByte", BadPresenceByte(item_src), 0))

\* C16: a whole slice that declares c > 0 tags and whose tag block, of nonzero
\* length, holds d well-formed records with d # c decodes to
\* Err(InvalidTagsLength(c, d)).
C16_TagsLengthMismatch ==
    (/\ Parsed
     /\ item_src.sig \in 1..8 /\ BadPresenceByte(item_src) < 0
     /\ item_src.cut = 0
     /\ item_src.count > 0 /\ item_src.shape # "none"
     /\ item_src.recs # item_src.count) =>
        item_res = ItemErr(ParseError("InvalidTagsLength", item_src.count, item_src.recs))

\* 3 tags declared, 2 records in the block: refused with (3, 2)
C16_Witness ==
    /\ item_src.count = 3 /\ item_src.recs = 2
    /\ item_res = ItemErr(ParseError("InvalidTagsLength", 3, 2))

----------------------------------------------------------------------------
(* Orchestrator and storage properties, checked under Spec.                *)

Count(calls, name) == Cardinality({i \in 1..Len(calls) : calls[i] = name})

\* a decode of this run yielded an error, or a store call of it returned one
Failed(run) == Count(run.calls, "poll_err") + Count(run.calls, "store_err") > 0

CommitCalled(run) == Count(run.calls, "commit_ok") + Count(run.calls, "commit_err") > 0

\* N, the item count the header of the downloaded bundle declares
DeclaredItems(run) == get_uint_le(SourceBytes(run.src), 4)

\* the k-th 64-byte entry of the header, and where the bytes of item k begin,
\* counted from the start of the bundle
HeaderEntry(data, k) == SubSeq(data, 32 + 64 * (k - 1) + 1, 32 + 64 * k)

RECURSIVE ItemOffset(_, _)
ItemOffset(data, k) ==
    IF k = 1 THEN 32 + 64 * get_uint_le(data, 4)
    ELSE ItemOffset(data, k - 1) + get_uint_le(HeaderEntry(data, k - 1), 4)

\* the decode of the item the k-th header entry describes; a slice the bundle
\* ends before cannot be carved
HeaderItem(data, k) ==
    IF ItemOffset(data, k) + get_uint_le(HeaderEntry(data, k), 4) > Len(data)
    THEN ItemPanic
    ELSE parse_item(SubSeq(data, ItemOffset(data, k) + 1,
                           ItemOffset(data, k) + get_uint_le(HeaderEntry(data, k), 4)),
                    encode_config_url_safe_no_pad(SubSeq(HeaderEntry(data, k), 33, 64)))

IsSuffix(s, t) == Len(s) <= Len(t) /\ SubSeq(t, Len(t) - Len(s) + 1, Len(t)) = s

\* the bundle ends inside its header table
HeaderShort(data) == Len(data) < 32 \/ Len(data) < 32 + 64 * get_uint_le(data, 4)

\* the slice of entry k cannot be carved: the bundle ends before the slice does
EntryShort(data, k) ==
    /\ ~HeaderShort(data)
    /\ k \in 1..get_uint_le(data, 4)
    /\ ItemOffset(data, k) + get_uint_le(HeaderEntry(data, k), 4) > Len(data)

\* how many entries the run has asked the decoder for
PollCount(run) ==
    Count(run.calls, "poll_ok") + Count(run.calls, "poll_err")
        + Count(run.calls, "poll_panic")

Ended(run) == run.pc \in {"done", "panicked"}

\* the run asked for bytes the bundle does not have: its header table, or the
\* slice of the entry it polled last
NeededMoreBytes(run) ==
    /\ run.src # NoSource
    /\ \/ HeaderShort(SourceBytes(run.src))
       \/ EntryShort(SourceBytes(run.src), PollCount(run))

\* C17: a run whose decoder needed more bytes than the bundle has stored no item
\* for that entry, rolled back, and returned an error to its caller.
C17_ShortBundleIsDecodeError ==
    \A r \in Runs :
        (Ended(runs[r]) /\ NeededMoreBytes(runs[r])) =>
            /\ runs[r].pc = "done"
            /\ runs[r].result = "Parser"
            /\ Count(runs[r].calls, "rollback") = 1
            /\ Len(runs[r].args) < PollCount(runs[r]) \/ PollCount(runs[r]) = 0

\* C1 as written: commit is invoked only in a run whose N items all decoded and
\* were all stored with Ok, and a run in which a decode or a store failed never
\* creates or modifies the destination file.
C1_FailedRunNeverTouchesDestination ==
    \A r \in Runs :
        /\ CommitCalled(runs[r]) =>
              /\ ~Failed(runs[r])
              /\ Count(runs[r].calls, "poll_ok") = DeclaredItems(runs[r])
              /\ Count(runs[r].calls, "store_ok") = DeclaredItems(runs[r])
        /\ Failed(runs[r]) => ~runs[r].touched

\* C1 amended: commit is invoked only in a run whose N items all decoded and were
\* all stored with Ok, and a run in which a decode or a store failed never creates
\* or modifies the destination file unless another run for the same transaction
\* id held a session while it did.
C1_AllOrNothing ==
    \A r \in Runs :
        /\ CommitCalled(runs[r]) =>
              /\ ~Failed(runs[r])
              /\ Count(runs[r].calls, "poll_ok") = DeclaredItems(runs[r])
              /\ Count(runs[r].calls, "store_ok") = DeclaredItems(runs[r])
        /\ (Failed(runs[r]) /\ ~runs[r].overlap) => ~runs[r].touched

C1_Witness ==
    \E r \in Runs : \E q \in Runs \ {r} :
        /\ runs[r].pc = "done" /\ Failed(runs[r]) /\ ~runs[r].overlap
        /\ Count(runs[r].calls, "store_ok") >= 1
        /\ runs[q].tx = runs[r].tx /\ runs[q].result = "Ok"
        /\ Count(runs[q].calls, "store_ok") = 2

\* C2: at the first decode error or store error of a run the next call on the
\* session is rollback, no poll or store follows it, and the run returns Parser
\* (after a decode error) or Storage (after a store error).
C2_RollbackOnFirstError ==
    \A r \in Runs : \A i \in 1..Len(runs[r].calls) :
        runs[r].calls[i] \in {"poll_err", "store_err"} =>
            IF i = Len(runs[r].calls)
            THEN runs[r].pc = "rollback" /\ runs[r].result = "none"
            ELSE /\ Len(runs[r].calls) = i + 1
                 /\ runs[r].calls[i + 1] = "rollback"
                 /\ runs[r].pc = "done"
                 /\ runs[r].result =
                        IF runs[r].calls[i] = "poll_err" THEN "Parser" ELSE "Storage"

C2_Witness ==
    \E r \in Runs :
        /\ runs[r].pc = "done"
        /\ runs[r].calls = <<"poll_ok", "store_ok", "poll_err", "rollback">>
        /\ runs[r].result = "Parser"

\* C3: a run that created a storage session and has ended made exactly one
\* terminal call on it, commit or rollback.
C3_ExactlyOneTerminal ==
    \A r \in Runs :
        (runs[r].session /\ runs[r].pc \in {"done", "panicked"}) =>
            Count(runs[r].calls, "commit_ok") + Count(runs[r].calls, "commit_err")
                + Count(runs[r].calls, "rollback") = 1

\* C4: right after a commit that returned Ok, in a session whose store calls all
\* returned Ok, the destination file of the transaction id exists and its staging
\* file does not.
C4_CommitMovesStaging ==
    (ev.op = "commit" /\ ev.ok /\ Count(runs[ev.run].calls, "store_err") = 0) =>
        /\ dest[runs[ev.run].tx] # 0
        /\ staging[runs[ev.run].tx] = 0

C4_Witness ==
    /\ ev.op = "commit" /\ ev.ok
    /\ Count(runs[ev.run].calls, "store_ok") = 2
    /\ files[dest[runs[ev.run].tx]] = <<to_vec(runs[ev.run].args[1]), to_vec(runs[ev.run].args[2])>>

\* C5 as written: right after the rollback that follows a store failure, neither
\* the destination file nor the staging file of the transaction id exists.
C5_NeitherFileAfterRollback ==
    (ev.op = "rollback" /\ runs[ev.run].result = "Storage") =>
        /\ dest[runs[ev.run].tx] = 0
        /\ staging[runs[ev.run].tx] = 0

\* C5 amended: right after the rollback that follows a store failure the staging
\* file of the transaction id does not exist, unless the file system refused its
\* deletion, and the destination file is as it was before the rollback: it exists
\* exactly when a run for that transaction id has committed it.
C5_RollbackRemovesStagingOnly ==
    (ev.op = "rollback" /\ runs[ev.run].result = "Storage") =>
        /\ ev.ok => staging[runs[ev.run].tx] = 0
        /\ ~ev.destChanged
        /\ dest[runs[ev.run].tx] # 0 <=>
              \E q \in Runs : /\ runs[q].tx = runs[ev.run].tx
                              /\ Count(runs[q].calls, "commit_ok") = 1

C5_Witness ==
    /\ ev.op = "rollback" /\ ev.ok /\ runs[ev.run].result = "Storage"
    /\ dest[runs[ev.run].tx] # 0
    /\ Count(runs[ev.run].calls, "store_ok") = 1

\* C6: the k-th store call of a run receives the item decoded from the k-th
\* header entry of the bundle it downloaded; commit is called only after N such
\* calls, all Ok; and the file a run alone on its transaction id commits ends with
\* the records of entries 1..N in that order.
C6_StoresFollowHeader ==
    /\ \A r \in Runs : \A k \in 1..Len(runs[r].args) :
          /\ HeaderItem(SourceBytes(runs[r].src), k).kind = "Ok"
          /\ runs[r].args[k] = HeaderItem(SourceBytes(runs[r].src), k).item
    /\ \A r \in Runs :
          /\ Len(runs[r].args) =
                Count(runs[r].calls, "store_ok") + Count(runs[r].calls, "store_err")
          /\ CommitCalled(runs[r]) =>
                /\ Len(runs[r].args) = DeclaredItems(runs[r])
                /\ Count(runs[r].calls, "store_ok") = DeclaredItems(runs[r])
    /\ (ev.op = "commit" /\ ev.ok /\ ~runs[ev.run].overlap) =>
          IsSuffix([k \in 1..DeclaredItems(runs[ev.run]) |->
                       to_vec(HeaderItem(SourceBytes(runs[ev.run].src), k).item)],
                   files[dest[runs[ev.run].tx]])

C6_Witness ==
    \E r \in Runs :
        /\ runs[r].result = "Ok"
        /\ Len(runs[r].args) = 2
        /\ runs[r].args[1] # runs[r].args[2]
        /\ runs[r].calls = <<"poll_ok", "store_ok", "poll_ok", "store_ok",
                             "poll_none", "commit_ok">>

\* the records of the stores of a run that returned Ok, in call order
OwnRecords(run) ==
    [k \in 1..Count(run.calls, "store_ok") |-> to_vec(run.args[k])]

\* C18: right after a store that returned Ok the file written to ends with one
\* complete record of the item stored; and while a run holds its session, with no
\* store of it failed and no other run on its transaction id, its staging file
\* holds exactly the records of its successful stores, in call order.
C18_StagingIsOwnPrefix ==
    /\ (ev.op = "store" /\ ev.ok) =>
          /\ Len(files[runs[ev.run].fd]) >= 1
          /\ files[runs[ev.run].fd][Len(files[runs[ev.run].fd])]
                = to_vec(runs[ev.run].args[Len(runs[ev.run].args)])
    /\ \A r \in Runs :
          (/\ runs[r].pc \in {"download", "poll", "store", "commit"}
           /\ ~runs[r].overlap
           /\ staging[runs[r].tx] # 0) =>
              files[staging[runs[r].tx]] = OwnRecords(runs[r])

\* the k-th item of the bundle is one the decoder refuses
EntryMalformed(src, k) ==
    /\ k \in 1..Len(src.variants)
    /\ \/ src.variants[k] \in {"badsig", "badpresence", "tagcount", "tagerror", "short"}
       \/ src.cut > 0 /\ k = Len(src.variants)

\* the run came upon malformed bundle data: a short header table, or a
\* malformed item at the entry it polled last
MetMalformedData(run) ==
    /\ run.src # NoSource
    /\ \/ HeaderShort(SourceBytes(run.src))
       \/ EntryMalformed(run.src, PollCount(run))

\* a storage operation of the run failed: session creation, a store, the commit
StorageFailed(run) ==
    \/ run.pc = "done" /\ ~run.session
    \/ Count(run.calls, "store_err") + Count(run.calls, "commit_err") > 0

\* the retrieval of the bundle failed
DownloadFailed(run) == run.pc = "done" /\ run.session /\ run.src = NoSource

\* C19: a run that has ended returned Parser exactly when it came upon malformed
\* bundle data, Storage exactly when a storage operation failed, Downloader
\* exactly when the retrieval failed.
C19_ErrorTaggedByOrigin ==
    \A r \in Runs :
        Ended(runs[r]) =>
            /\ runs[r].result = "Parser" <=> MetMalformedData(runs[r])
            /\ runs[r].result = "Storage" <=> StorageFailed(runs[r])
            /\ runs[r].result = "Downloader" <=> DownloadFailed(runs[r])

----------------------------------------------------------------------------
(* Reading a committed file back, as test_stream reads its fixture         *)
(* (transaction/bundle.rs, lines 174-186)                                  *)

\* the bytes write_all(&to_vec(item)) put in the file, as JSON tokens: the object
\* of one record and nothing after it; a failed write leaves an unclosed object
ChunkText(chunk) ==
    IF chunk.kind = "json"
    THEN <<[t |-> "open"], [t |-> "fields", item |-> chunk.item], [t |-> "close"]>>
    ELSE <<[t |-> "open"]>>

\* the bytes of a file: what each write left, one after the other
RECURSIVE FileText(_)
FileText(content) ==
    IF content = <<>> THEN <<>>
    ELSE ChunkText(Head(content)) \o FileText(Tail(content))

\* BufReader::lines(): the text between line feeds; a last line needs none
RECURSIVE lines_with(_, _, _)
lines_with(text, line, out) ==
    IF text = <<>> THEN (IF line = <<>> THEN out ELSE Append(out, line))
    ELSE IF Head(text).t = "lf" THEN lines_with(Tail(text), <<>>, Append(out, line))
    ELSE lines_with(Tail(text), Append(line, Head(text)), out)

lines(text) == lines_with(text, <<>>, <<>>)

\* serde_json::from_str::<BundleItem>(line): one whole object and no character
\* after it, else an error (trailing characters, EOF while parsing)
from_str(line) ==
    IF Len(line) = 3 /\ line[1].t = "open" /\ line[2].t = "fields" /\ line[3].t = "close"
    THEN [kind |-> "Ok", item |-> line[2].item]
    ELSE [kind |-> "Err", item |-> line]

\* the loop of lines 183-186: from_str(line).unwrap() for every line
RECURSIVE read_lines_with(_, _)
read_lines_with(ls, expected) ==
    IF ls = <<>> THEN [kind |-> "Ok", items |-> expected]
    ELSE IF from_str(Head(ls)).kind # "Ok" THEN [kind |-> "Panic", items |-> expected]
    ELSE read_lines_with(Tail(ls), Append(expected, from_str(Head(ls)).item))

read_lines(content) == read_lines_with(lines(FileText(content)), <<>>)

\* the run whose commit has just returned Ok, when the file it committed holds
\* the records of its stores and nothing else
CommittedOwnRecords ==
    /\ ev.op = "commit" /\ ev.ok
    /\ ~runs[ev.run].overlap
    /\ dest[runs[ev.run].tx] # 0
    /\ files[dest[runs[ev.run].tx]] = OwnRecords(runs[ev.run])

\* C20: reading the file just committed back line by line yields the items the
\* run stored, equal field for field and in store order.
C20_CommittedFileReadsBack ==
    CommittedOwnRecords =>
        read_lines(files[dest[runs[ev.run].tx]])
            = [kind |-> "Ok", items |-> runs[ev.run].args]

----------------------------------------------------------------------------
(* LongSpec: read_long and skip_long                                       *)

\* how many bytes a long starting at pos takes: up to and including the first
\* byte below 0x80, four at most; 0 when the buffer ends before that
LongWidth(buf, pos) ==
    LET ends == {n \in 1..4 :
                    /\ pos + n <= Len(buf)
                    /\ buf[pos + n] < 128 \/ n = 4
                    /\ \A i \in 1..(n - 1) : buf[pos + i] >= 128}
    IN IF ends = {} THEN 0 ELSE CHOOSE n \in ends : TRUE

\* the 7-bit groups of the first n bytes from pos on, least significant first
RECURSIVE LongRaw(_, _, _)
LongRaw(buf, pos, n) ==
    IF n = 0 THEN 0
    ELSE (buf[pos + 1] % 128) + 128 * LongRaw(buf, pos + 1, n - 1)

\* zigzag: 0, -1, 1, -2, 2, ... for raw 0, 1, 2, 3, 4, ...
ZigZagDecoded(raw) == IF raw % 2 = 1 THEN -((raw + 1) \div 2) ELSE raw \div 2

\* C21: read_long takes the bytes of a little-endian base-128 varint up to the
\* first byte without the continuation bit, four at most, and returns the zigzag
\* decoding of their 7-bit groups; it returns no value only when the buffer ends
\* before that, on continuation bytes alone.
C21_ReadLongDecodes ==
    long_read # NoLong =>
        IF LongWidth(long_buf, long_pos) > 0
        THEN /\ long_read.some
             /\ long_read.pos = long_pos + LongWidth(long_buf, long_pos)
             /\ long_read.val
                   = ZigZagDecoded(LongRaw(long_buf, long_pos,
                                           LongWidth(long_buf, long_pos)))
        ELSE /\ ~long_read.some
             /\ long_read.pos = Len(long_buf)
             /\ Len(long_buf) - long_pos < 4
             /\ \A i \in (long_pos + 1)..Len(long_buf) : long_buf[i] >= 128

\* a long of four bytes, the fourth with its continuation bit set, of odd raw value
C21_Witness ==
    /\ long_read.some
    /\ long_read.pos = long_pos + 4
    /\ long_buf[long_pos + 4] >= 128
    /\ long_read.val < 0

\* C29: called at the same position of the same buffer, skip_long leaves pos
\* where read_long leaves it.
C29_SkipLongFollowsReadLong ==
    (long_read # NoLong /\ long_skip # -1) => long_skip = long_read.pos

----------------------------------------------------------------------------
(* ItemSpec: the layout of a well-formed item                              *)

\* the slice is well formed: a known discriminant, presence bytes 0 or 1, a tag
\* block of as many records as declared (none declared, no block), nothing cut
WellFormedItem(p) ==
    /\ p.sig \in 1..8
    /\ p.target \in {0, 1} /\ p.anchor \in {0, 1}
    /\ p.count = p.recs
    /\ p.count = 0 => p.shape = "none"
    /\ p.cut = 0

\* signature and owner sizes: ED25519 as the protocol gives them
FieldSizes(p) == IF p.sig = 2 THEN <<64, 32>> ELSE SIG_CONFIG(p.sig)

\* where the fields of the slice made up as p says begin (bytes before them)
OwnerAt(p) == 2 + FieldSizes(p)[1]
TargetAt(p) == OwnerAt(p) + FieldSizes(p)[2]
AnchorAt(p) == TargetAt(p) + (IF p.target = 1 THEN 33 ELSE 1)
TagsAt(p) == AnchorAt(p) + (IF p.anchor = 1 THEN 33 ELSE 1)
PayloadAt(p) == TagsAt(p) + 16 + get_uint_le(SubSeq(item_data, TagsAt(p) + 9, TagsAt(p) + 16), 8)

Encoded(from, to) == encode_config_url_safe_no_pad(SubSeq(item_data, from + 1, to))

\* C22: of a well-formed slice parse_item yields the signature from the bytes
\* after the discriminant, the owner from the next ones, target and anchor absent
\* on presence byte 0 and the 32 bytes after it on 1, and as data every byte
\* after the tag block; field bytes and payload add up to the slice.
C22_ItemFieldLayout ==
    (Parsed /\ WellFormedItem(item_src)) =>
        /\ item_res.kind = "Ok"
        /\ item_res.item.signature = Encoded(2, OwnerAt(item_src))
        /\ item_res.item.owner = Encoded(OwnerAt(item_src), TargetAt(item_src))
        /\ item_res.item.target
              = IF item_src.target = 0 THEN None
                ELSE Some(Encoded(TargetAt(item_src) + 1, AnchorAt(item_src)))
        /\ item_res.item.anchor
              = IF item_src.anchor = 0 THEN None
                ELSE Some(Encoded(AnchorAt(item_src) + 1, TagsAt(item_src)))
        /\ item_res.item.data = Encoded(PayloadAt(item_src), Len(item_data))
        /\ PayloadAt(item_src) + Len(ItemPayload) = Len(item_data)
        /\ item_res.item.data = encode_config_url_safe_no_pad(ItemPayload)

\* an ED25519 item with a target, no anchor, decoded
C22_Witness ==
    /\ Parsed /\ WellFormedItem(item_src)
    /\ item_src.sig = 2 /\ item_src.target = 1 /\ item_src.anchor = 0
    /\ item_res.kind = "Ok"
    /\ item_res.item.target.some /\ ~item_res.item.anchor.some

\* the tag block length the slice declares
DeclaredBlockLength(p) ==
    get_uint_le(SubSeq(item_data, TagsAt(p) + 9, TagsAt(p) + 16), 8)

\* C24: a whole slice that declares zero tags, or a tag block of zero bytes,
\* decodes to an item with no tags whose data is every byte after the two
\* 8-byte fields.
C24_ZeroTagsConsumeNothing ==
    (/\ Parsed
     /\ item_src.sig \in 1..8 /\ BadPresenceByte(item_src) < 0
     /\ item_src.cut = 0
     /\ item_src.count = 0 \/ DeclaredBlockLength(item_src) = 0) =>
        /\ item_res.kind = "Ok"
        /\ item_res.item.tags = <<>>
        /\ item_res.item.data = Encoded(TagsAt(item_src) + 16, Len(item_data))

\* zero tags declared before a block of two records: the block went to the data
C24_Witness ==
    /\ Parsed
    /\ item_src.count = 0 /\ item_src.recs = 2 /\ item_src.shape = "one"
    /\ DeclaredBlockLength(item_src) = 11
    /\ item_res.kind = "Ok"
    /\ item_res.item.tags = <<>>
    /\ item_res.item.data
          = encode_config_url_safe_no_pad(TagBlockBytes("one", 2) \o ItemPayload)

----------------------------------------------------------------------------
(* StreamSpec: which bytes of the bundle each entry is decoded from        *)

StreamBuilt == bstream.state \in {"ready", "poll_panicked"}

\* C23: the header takes 32 + 64 * N bytes of the bundle; the i-th poll decodes
\* byte_length_i bytes that begin where the slices of the entries before it end,
\* under the i-th header id, and takes exactly those bytes from the buffer.
C23_SlicesLeftToRight ==
    StreamBuilt =>
        /\ Len(bstream.entries) = get_uint_le(input, 4)
        /\ \A k \in 1..Len(bstream.entries) :
              /\ bstream.entries[k].size = get_uint_le(HeaderEntry(input, k), 4)
              /\ bstream.entries[k].id
                    = encode_config_url_safe_no_pad(SubSeq(HeaderEntry(input, k), 33, 64))
        /\ bstream.current_entry = 0 =>
              bstream.bytes = Drop(32 + 64 * get_uint_le(input, 4), input)
        /\ \A k \in 1..bstream.current_entry :
              /\ polls[k].kind = "Some"
              /\ polls[k].res = HeaderItem(input, k)
        /\ bstream.current_entry > 0 =>
              bstream.bytes
                  = Drop(ItemOffset(input, bstream.current_entry)
                            + bstream.entries[bstream.current_entry].size,
                         input)

\* both entries of a two-item bundle decoded, the second one to an item, and
\* nothing left of the buffer
C23_Witness ==
    /\ bstream.state = "ready"
    /\ Len(bstream.entries) = 2 /\ bstream.current_entry = 2
    /\ polls[1].res.kind = "Ok"
    /\ polls[2].res.kind = "Ok"
    /\ polls[2].res.item.id # polls[1].res.item.id
    /\ bstream.bytes = <<>>

\* poll k returned Some(Err(_))
PollFailed(k) == polls[k].kind = "Some" /\ polls[k].res.kind = "Err"

\* C27: a poll whose decode failed has moved the cursor past its entry and taken
\* the entry's declared bytes from the buffer; the poll after it does not end
\* the stream while entries remain, and what it returns is the decode of its own
\* entry's bytes under its own id.
C27_ErrAdvancesCursor ==
    StreamBuilt =>
        \A k \in 1..Len(polls) :
            PollFailed(k) =>
                /\ k <= Len(bstream.entries)
                /\ bstream.current_entry >= k
                /\ k = Len(polls) =>
                      /\ bstream.current_entry = k
                      /\ bstream.bytes
                            = Drop(ItemOffset(input, k)
                                      + get_uint_le(HeaderEntry(input, k), 4),
                                   input)
                /\ (k < Len(polls) /\ k < Len(bstream.entries)) =>
                      /\ polls[k + 1].kind # "None"
                      /\ polls[k + 1].kind = "Some" =>
                            polls[k + 1].res = HeaderItem(input, k + 1)
                      /\ polls[k + 1].kind = "Panic" =>
                            \/ EntryShort(input, k + 1)
                            \/ HeaderItem(input, k + 1).kind = "Panic"
                /\ (k < Len(polls) /\ k = Len(bstream.entries)) =>
                      polls[k + 1].kind = "None"

\* the first entry failed to decode, the second decoded to an item under its id
C27_Witness ==
    /\ bstream.state = "ready"
    /\ Len(polls) >= 2
    /\ PollFailed(1)
    /\ polls[2].kind = "Some" /\ polls[2].res.kind = "Ok"
    /\ polls[2].res.item.id
          = encode_config_url_safe_no_pad(SubSeq(HeaderEntry(input, 2), 33, 64))
    /\ bstream.current_entry = 2

----------------------------------------------------------------------------
(* TagsLiveSpec: termination of TagsReader::deserialize                    *)

\* C28: deserialize returns on every buffer, and the reader's pos is never
\* negative nor beyond the end of the buffer.
C28_TerminatesInBounds ==
    /\ [](reader.pc # "idle" => (0 <= reader.pos /\ reader.pos <= Len(buffer)))
    /\ <>(reader.pc = "done")

\* a string length read from the last byte of the buffer asked for more bytes
\* than are left: refused with pos at the end of the buffer
C28_Witness ==
    /\ reader.pc = "done"
    /\ reader.err = ParseError("InvalidLengthString", 0, 0)
    /\ tagsEv.op = "record"
    /\ reader.pos = Len(buffer)
    /\ read_long(buffer, tagsEv.from).val > 0

----------------------------------------------------------------------------
(* Spec: sessions on a staging path an earlier run has used                *)

\* the run has called neither commit nor rollback
NeitherTerminal(run) ==
    Count(run.calls, "commit_ok") + Count(run.calls, "commit_err")
        + Count(run.calls, "rollback") = 0

\* C26: the file a run has just committed holds the records of its own stores
\* and nothing else, when no other run for the transaction id held a session
\* alongside it and every other run for that id ended with neither commit nor
\* rollback.
C26_CommittedFileIsOwnRecords ==
    (/\ ev.op = "commit" /\ ev.ok
     /\ ~runs[ev.run].overlap
     /\ \A q \in Runs \ {ev.run} :
           runs[q].tx = runs[ev.run].tx => (Ended(runs[q]) /\ NeitherTerminal(runs[q])))
        => files[dest[runs[ev.run].tx]] = OwnRecords(runs[ev.run])

\* C25: a session created for a transaction id while another run holds a session
\* on the staging file linked at that id's staging path writes to that same file.
C25_SessionsShareStagingFile ==
    [][\A q \in Runs :
          (runs[q].pc = "idle" /\ runs'[q].pc = "download") =>
              \A r \in Runs \ {q} :
                  (/\ HoldsSession(runs[r])
                   /\ runs[r].tx = runs'[q].tx
                   /\ runs[r].fd = staging[runs[r].tx]) =>
                      /\ runs'[q].fd = runs[r].fd
                      /\ staging'[runs[r].tx] = runs[r].fd]_vars

\* two interleaved runs for one transaction id, each having stored at least one
\* record into the one staging file there has been, and the commit of one of
\* them has just made the records of both the destination file
C25_Witness ==
    /\ ev.op = "commit" /\ ev.ok
    /\ Len(files) = 1
    /\ dest[runs[ev.run].tx] = 1
    /\ \E q \in Runs \ {ev.run} :
          /\ runs[q].tx = runs[ev.run].tx
          /\ runs[q].overlap /\ runs[ev.run].overlap
          /\ Count(runs[q].calls, "store_ok") >= 1
          /\ Count(runs[ev.run].calls, "store_ok") >= 1
          /\ Len(files[1]) = Count(runs[q].calls, "store_ok")
                                + Count(runs[ev.run].calls, "store_ok")
          /\ files[1] # OwnRecords(runs[ev.run])

\* a run still decoding or storing while the commit or the rollback of another
\* run for its transaction id has just taken the staging file from the path
C25_StagingTakenFromWriter ==
    /\ ev.op \in {"commit", "rollback"} /\ ev.ok
    /\ \E r \in Runs \ {ev.run} :
          /\ runs[r].tx = runs[ev.run].tx
          /\ runs[r].pc \in {"poll", "store"}
          /\ Count(runs[r].calls, "store_ok") >= 1
          /\ staging[runs[r].tx] = 0

============================================================================
